---- MODULE Spec2Model ----
(***************************************************************************)
(* The article delivery pipeline of Discord.RSS (DeliveryPipeline.js).     *)
(* Every deliver(newArticle) call is an async task; its position between   *)
(* two awaits is pc[a].  One action is one run of the task from one await  *)
(* to the next on the single-threaded event loop.                          *)
(***************************************************************************)
EXTENDS Integers, Sequences, FiniteSets, TLC

\* ------------------------------------------------------------------ bounds
\* Largest configured quota (feeds.articleRateLimit,
\* feeds.articleDailyChannelLimit) the model draws; 0 is "unlimited".
MaxLimit == 2
\* Largest number of API payloads one article message renders to.
MaxPayloads == 2
\* Timer firings followed per schedule.
MaxFirings == 3

\* --------------------------------------------------- the universe of inputs
\* newArticle objects handed to deliver (identified by article._id).
Articles == {"a1", "a2", "a3"}
\* The articles handed to deliver when a restProducer is configured: each
\* direct-send delivery has many more positions than a queued one, so the
\* model runs two of them at a time, and three in queue mode.
DirectArticles == {"a1", "a2"}
\* Channel ids a feedObject.channel can name.
Channels == {"c1", "c2"}
\* feedObject.channel of an article that has not been handed to deliver yet.
NoChannel == "-"

\* Schedule ids initialize.populateSchedules() returns.
Schedules == {"s1", "s2"}

\* The Discord error code handleArticleFailure singles out.
BadRequest == 50035

\* A thrown value: its .code (0: no code property) and its .message as a
\* sequence of words (hasMessage FALSE: .message is undefined).
Error(code, hasMessage, message) ==
  [code |-> code, hasMessage |-> hasMessage, message |-> message]
NoError == Error(0, FALSE, <<"-">>)

\* Error('Missing medium to send article via service')
MissingMedium ==
  Error(0, TRUE, <<"Missing", "medium", "to", "send", "article", "via", "service">>)
\* What ArticleRateLimiter.assertWithinLimits throws when a quota is exhausted.
RateLimited == Error(0, TRUE, <<"Rate", "limited", "article">>)
\* What ArticleMessage.create can throw.
RenderErrors == {Error(0, TRUE, <<"Failed", "to", "render">>)}
\* What restProducer.enqueue can reject with.
SinkErrors ==
  { Error(BadRequest, TRUE, <<"Invalid", "Form", "Body">>),
    Error(BadRequest, TRUE, <<"Invalid", "Form", "Body", "limited", "length">>),
    Error(50013, TRUE, <<"Missing", "Permissions">>),
    Error(0, TRUE, <<"You", "are", "being", "rate", "limited">>),
    Error(0, FALSE, <<>>) }

\* err.message.includes('limited'), on a message held as its words.
includesLimited(message) ==
  \E i \in 1..Len(message) : message[i] = "limited"

\* err.message || 'N/A'
messageOrNA(e) ==
  IF e.hasMessage /\ e.message # <<>> THEN e.message ELSE <<"N/A">>

BlockedComment == <<"Blocked", "by", "filters">>

\* this.queues holds no entry for a channel id (instance ids start at 1).
NoQueue == [id |-> 0, items |-> <<>>]

VARIABLES
  isMongoDatabase,  \* Feed.isMongoDatabase
  restProducer,     \* this.restProducer is set (direct-send mode)
  articleRateLimit, \* global quota, 0 = unlimited
  dailyLimit,       \* per-channel daily quota, 0 = unlimited
  channels,         \* bot.channels.cache: the channel ids it holds
  feedChannel,      \* newArticle.feedObject.channel
  pc,               \* where each deliver call stands
  verdict,          \* articleMessage.passedFilters(): "unknown", "passed", "blocked"
  err,              \* the value caught by deliver's catch
  failChannel,      \* handleArticleFailure's `channel` is defined
  recs,             \* DeliveryRecord saves attempted, per article
  renderCalls,      \* ArticleMessage.create calls, per article
  limiterCalls,     \* assertWithinLimits calls, per article
  admitted,         \* assertWithinLimits resolved for the article
  sinkRequests,     \* restProducer.enqueue calls, per article
  subSettled,       \* of those, the requests seen to settle one by one
  subFailed,        \* of those, the requests that were rejected
  diagSends,        \* channel.send calls, per article
  usedGlobal,       \* units consumed of the global quota
  usedChannel,      \* units consumed of each channel's daily quota
  queues,           \* this.queues: channel id -> ArticleQueue
  created,          \* ArticleQueue instances constructed
  requested,        \* channel ids getQueueForChannel was called with
  enqLog,           \* per channel, the articles in the order sendNewArticle enqueued them
  drained,          \* per channel, the articles in the order the queue dispatched them
  testRuns,         \* scheduleManager.testRuns
  schedules,        \* the schedules added to the ScheduleManager
  timersArmed,      \* beginTimers was called
  activeRuns,       \* per schedule, refresh cycles running now
  cyclesStarted,    \* per schedule, refresh cycles started so far
  firingsSkipped    \* per schedule, timer firings that started no cycle

config == <<isMongoDatabase, restProducer, articleRateLimit, dailyLimit>>
quota == <<usedGlobal, usedChannel>>
registry == <<queues, created, requested, enqLog, drained>>
failure == <<err, failChannel, recs, diagSends>>
sink == <<sinkRequests, subSettled, subFailed>>
schedule == <<testRuns, schedules, timersArmed, activeRuns, cyclesStarted, firingsSkipped>>
pipeline == <<config, channels, feedChannel, pc, verdict, failure, renderCalls,
              limiterCalls, admitted, sink, quota, registry>>
vars == <<pipeline, schedule>>

Init ==
  /\ isMongoDatabase \in BOOLEAN
  /\ restProducer \in BOOLEAN
  /\ articleRateLimit \in 0..MaxLimit
  /\ dailyLimit \in 0..MaxLimit
  /\ channels = Channels
  /\ feedChannel = [a \in Articles |-> NoChannel]
  /\ pc = [a \in Articles |-> "pending"]
  /\ verdict = [a \in Articles |-> "unknown"]
  /\ err = [a \in Articles |-> NoError]
  /\ failChannel = [a \in Articles |-> FALSE]
  /\ recs = [a \in Articles |-> <<>>]
  /\ renderCalls = [a \in Articles |-> 0]
  /\ limiterCalls = [a \in Articles |-> 0]
  /\ admitted = [a \in Articles |-> FALSE]
  /\ sinkRequests = [a \in Articles |-> 0]
  /\ subSettled = [a \in Articles |-> 0]
  /\ subFailed = [a \in Articles |-> 0]
  /\ diagSends = [a \in Articles |-> 0]
  /\ usedGlobal = 0
  /\ usedChannel = [c \in Channels |-> 0]
  /\ queues = [c \in Channels |-> NoQueue]
  /\ created = 0
  /\ requested = {}
  /\ enqLog = [c \in Channels |-> <<>>]
  /\ drained = [c \in Channels |-> <<>>]
  /\ testRuns = FALSE
  /\ schedules = {}
  /\ timersArmed = FALSE
  /\ activeRuns = [s \in Schedules |-> 0]
  /\ cyclesStarted = [s \in Schedules |-> 0]
  /\ firingsSkipped = [s \in Schedules |-> 0]

\* ----------------------------------------------------------------- helpers
\* getChannel: this.bot.channels.cache.get(feedObject.channel) is defined.
getChannel(a) == feedChannel[a] \in channels

\* articleMessage.getMedium(this.bot): the channel (or its webhook) still exists.
getMedium(a) == feedChannel[a] \in channels

\* The data of a DeliveryRecord built by recordFailure / recordFilterBlock, with
\* whether record.save() succeeded.
DeliveryRecord(a, comment, saved) ==
  [articleID |-> a, channel |-> feedChannel[a], delivered |-> FALSE,
   comment |-> comment, saved |-> saved]

\* this.queues.has(channelID)
queuesHas(qs, channelID) == qs[channelID].id # 0

\* getQueueForChannel on registry qs with n instances constructed so far: the
\* registry and instance count afterwards, and the instance returned.
getQueueForChannel_noSet(qs, n, channelID) ==
  IF ~queuesHas(qs, channelID)
    THEN [queues |-> qs, created |-> n + 1, queue |-> n + 1]
    ELSE [queues |-> qs, created |-> n, queue |-> qs[channelID].id]
getQueueForChannel_alwaysNew(qs, n, channelID) ==
  [queues |-> [qs EXCEPT ![channelID] = [id |-> n + 1, items |-> <<>>]],
   created |-> n + 1,
   queue |-> n + 1]
getQueueForChannel(qs, n, channelID) ==
  IF ~queuesHas(qs, channelID)
    THEN [queues |-> [qs EXCEPT ![channelID] = [id |-> n + 1, items |-> <<>>]],
          created |-> n + 1,
          queue |-> n + 1]
    ELSE [queues |-> qs, created |-> n, queue |-> qs[channelID].id]

\* ArticleQueue.enqueue: append to the FIFO.
queueEnqueue(q, a) == [q EXCEPT !.items = Append(@, a)]

\* ArticleRateLimiter: every quota scope the article consumes has a unit left
\* (a limit of 0 is unlimited).
withinLimits(c) ==
  /\ articleRateLimit = 0 \/ usedGlobal < articleRateLimit
  /\ dailyLimit = 0 \/ usedChannel[c] < dailyLimit

\* ------------------------------------------------- failure and block paths
\* handleArticleFailure after `await this.recordFailure(...)`: lines 102-114.
\* e is the caught value, ch whether `channel` (line 100) is defined.
classifyFailure_notifyAlways(a, e, ch) ==
  IF ~e.hasMessage
    THEN /\ pc' = [pc EXCEPT ![a] = "rejected"]
         /\ UNCHANGED diagSends
    ELSE IF includesLimited(e.message)
      THEN /\ pc' = [pc EXCEPT ![a] = "failed"]
           /\ UNCHANGED diagSends
      ELSE IF ~ch
        THEN /\ pc' = [pc EXCEPT ![a] = "rejected"]
             /\ UNCHANGED diagSends
        ELSE /\ pc' = [pc EXCEPT ![a] = "channelSend"]
             /\ diagSends' = [diagSends EXCEPT ![a] = @ + 1]
classifyFailure(a, e, ch) ==
  IF ~e.hasMessage
    \* err.message.includes on undefined: a TypeError leaves handleArticleFailure
    THEN /\ pc' = [pc EXCEPT ![a] = "rejected"]
         /\ UNCHANGED diagSends
    ELSE IF includesLimited(e.message)
      THEN /\ pc' = [pc EXCEPT ![a] = "failed"]
           /\ UNCHANGED diagSends
      ELSE IF e.code = BadRequest
        THEN IF ~ch
          \* channel.send on undefined: a TypeError
          THEN /\ pc' = [pc EXCEPT ![a] = "rejected"]
               /\ UNCHANGED diagSends
          ELSE /\ pc' = [pc EXCEPT ![a] = "channelSend"]
               /\ diagSends' = [diagSends EXCEPT ![a] = @ + 1]
        ELSE /\ pc' = [pc EXCEPT ![a] = "failed"]
             /\ UNCHANGED diagSends

handleArticleFailure_skipWhenDisabled(a, e) ==
  /\ err' = [err EXCEPT ![a] = e]
  /\ failChannel' = [failChannel EXCEPT ![a] = getChannel(a)]
  /\ UNCHANGED <<recs, diagSends>>
  /\ pc' = [pc EXCEPT ![a] = IF isMongoDatabase THEN "recordFailure" ELSE "failed"]

\* handleArticleFailure up to its first await: lines 98-101.
handleArticleFailure(a, e) ==
  /\ err' = [err EXCEPT ![a] = e]
  /\ failChannel' = [failChannel EXCEPT ![a] = getChannel(a)]
  /\ UNCHANGED recs
  /\ IF isMongoDatabase
       THEN /\ pc' = [pc EXCEPT ![a] = "recordFailure"]
            /\ UNCHANGED diagSends
       ELSE classifyFailure(a, e, getChannel(a))

\* handleArticleBlocked and recordFilterBlock up to record.save().
handleArticleBlocked(a) ==
  /\ pc' = [pc EXCEPT ![a] = IF isMongoDatabase THEN "recordFilterBlock" ELSE "blocked"]
  /\ UNCHANGED failure

\* ---------------------------------------------------------------- actions
\* deliver up to `await this.createArticleMessage(...)`: lines 73-79.
deliver_noChannelCheck(a, c) ==
  /\ pc[a] = "pending"
  /\ restProducer => a \in DirectArticles
  /\ feedChannel' = [feedChannel EXCEPT ![a] = c]
  /\ pc' = [pc EXCEPT ![a] = "createArticleMessage"]
  /\ renderCalls' = [renderCalls EXCEPT ![a] = @ + 1]
  /\ UNCHANGED <<schedule, config, channels, verdict, failure, limiterCalls, admitted,
                 sink, quota, registry>>
deliver_limiterBeforeRender(a, c) ==
  /\ pc[a] = "pending"
  /\ restProducer => a \in DirectArticles
  /\ feedChannel' = [feedChannel EXCEPT ![a] = c]
  /\ pc' = [pc EXCEPT ![a] = IF c \notin channels THEN "dropped" ELSE "assertWithinLimits"]
  /\ limiterCalls' = [limiterCalls EXCEPT ![a] = IF c \notin channels THEN @ ELSE @ + 1]
  /\ UNCHANGED <<schedule, config, channels, verdict, failure, renderCalls, admitted,
                 sink, quota, registry>>

deliver(a, c) ==
  /\ pc[a] = "pending"
  /\ restProducer => a \in DirectArticles
  /\ feedChannel' = [feedChannel EXCEPT ![a] = c]
  /\ IF c \notin channels
       THEN /\ pc' = [pc EXCEPT ![a] = "dropped"]
            /\ UNCHANGED renderCalls
       ELSE /\ pc' = [pc EXCEPT ![a] = "createArticleMessage"]
            /\ renderCalls' = [renderCalls EXCEPT ![a] = @ + 1]
  /\ UNCHANGED <<schedule, config, channels, verdict, failure, limiterCalls, admitted,
                 sink, quota, registry>>

\* createArticleMessage settles; deliver runs to its next await: lines 79-86,
\* into handleArticleBlocked, sendNewArticle (line 123) or handleArticleFailure.
createArticleMessageDone_dispatchBlocked(a) ==
  /\ pc[a] = "createArticleMessage"
  /\ \/ \E e \in RenderErrors :
          /\ handleArticleFailure(a, e)
          /\ UNCHANGED <<verdict, limiterCalls>>
     \/ /\ verdict' = [verdict EXCEPT ![a] = "blocked"]
        /\ pc' = [pc EXCEPT ![a] = "assertWithinLimits"]
        /\ limiterCalls' = [limiterCalls EXCEPT ![a] = @ + 1]
        /\ UNCHANGED failure
     \/ /\ verdict' = [verdict EXCEPT ![a] = "passed"]
        /\ pc' = [pc EXCEPT ![a] = "assertWithinLimits"]
        /\ limiterCalls' = [limiterCalls EXCEPT ![a] = @ + 1]
        /\ UNCHANGED failure
  /\ UNCHANGED <<schedule, config, channels, feedChannel, renderCalls, admitted,
                 sink, quota, registry>>
createArticleMessageDone(a) ==
  /\ pc[a] = "createArticleMessage"
  /\ \/ \E e \in RenderErrors :
          /\ handleArticleFailure(a, e)
          /\ UNCHANGED <<verdict, limiterCalls>>
     \/ /\ verdict' = [verdict EXCEPT ![a] = "blocked"]
        /\ handleArticleBlocked(a)
        /\ UNCHANGED limiterCalls
     \/ /\ verdict' = [verdict EXCEPT ![a] = "passed"]
        /\ pc' = [pc EXCEPT ![a] = "assertWithinLimits"]
        /\ limiterCalls' = [limiterCalls EXCEPT ![a] = @ + 1]
        /\ UNCHANGED failure
  /\ UNCHANGED <<schedule, config, channels, feedChannel, renderCalls, admitted,
                 sink, quota, registry>>

recordFilterBlockDone_noReturn(a) ==
  /\ pc[a] = "recordFilterBlock"
  /\ \E saved \in BOOLEAN :
       recs' = [recs EXCEPT ![a] = Append(@, DeliveryRecord(a, BlockedComment, saved))]
  /\ pc' = [pc EXCEPT ![a] = "assertWithinLimits"]
  /\ limiterCalls' = [limiterCalls EXCEPT ![a] = @ + 1]
  /\ UNCHANGED <<schedule, config, channels, feedChannel, verdict, err, failChannel, diagSends,
                 renderCalls, admitted, sink, quota, registry>>

\* record.save() of recordFilterBlock settles: lines 176-181, then deliver returns.
recordFilterBlockDone(a) ==
  /\ pc[a] = "recordFilterBlock"
  /\ \E saved \in BOOLEAN :
       recs' = [recs EXCEPT ![a] = Append(@, DeliveryRecord(a, BlockedComment, saved))]
  /\ pc' = [pc EXCEPT ![a] = "blocked"]
  /\ UNCHANGED <<schedule, config, channels, feedChannel, verdict, err, failChannel, diagSends,
                 renderCalls, limiterCalls, admitted, sink, quota, registry>>

\* sendNewArticle after `await ArticleRateLimiter.assertWithinLimits(...)`:
\* lines 124-133.  ok: the call resolved; it threw RateLimited otherwise, which
\* deliver's catch hands to handleArticleFailure.
sendNewArticle_ignoreLimiter(a, ok) ==
  LET c == feedChannel[a]
      r == getQueueForChannel(queues, created, c)
  IN
  IF restProducer
         THEN /\ pc' = [pc EXCEPT ![a] = "getMedium"]
              /\ UNCHANGED <<failure, registry>>
         ELSE /\ queues' = [r.queues EXCEPT ![c] = queueEnqueue(@, a)]
              /\ created' = r.created
              /\ requested' = requested \cup {c}
              /\ enqLog' = [enqLog EXCEPT ![c] = Append(@, a)]
              /\ pc' = [pc EXCEPT ![a] = "enqueued"]
              /\ UNCHANGED <<failure, drained>>
sendNewArticle_queueAlways(a, ok) ==
  LET c == feedChannel[a]
      r == getQueueForChannel(queues, created, c)
  IN
  IF ~ok
    THEN /\ handleArticleFailure(a, RateLimited)
         /\ UNCHANGED registry
    ELSE /\ queues' = [r.queues EXCEPT ![c] = queueEnqueue(@, a)]
         /\ created' = r.created
         /\ requested' = requested \cup {c}
         /\ enqLog' = [enqLog EXCEPT ![c] = Append(@, a)]
         /\ pc' = [pc EXCEPT ![a] = "enqueued"]
         /\ UNCHANGED <<failure, drained>>

sendNewArticle(a, ok) ==
  LET c == feedChannel[a]
      r == getQueueForChannel(queues, created, c)
  IN
  IF ~ok
    THEN /\ handleArticleFailure(a, RateLimited)
         /\ UNCHANGED registry
    ELSE IF restProducer
         \* sendToService up to `await articleMessage.getMedium(...)`
         THEN /\ pc' = [pc EXCEPT ![a] = "getMedium"]
              /\ UNCHANGED <<failure, registry>>
         ELSE /\ queues' = [r.queues EXCEPT ![c] = queueEnqueue(@, a)]
              /\ created' = r.created
              /\ requested' = requested \cup {c}
              /\ enqLog' = [enqLog EXCEPT ![c] = Append(@, a)]
              /\ pc' = [pc EXCEPT ![a] = "enqueued"]
              /\ UNCHANGED <<failure, drained>>

\* assertWithinLimits settles: the limiter checks and consumes every scope in
\* one step, then sendNewArticle goes on.
assertWithinLimitsDone(a) ==
  /\ pc[a] = "assertWithinLimits"
  /\ IF withinLimits(feedChannel[a])
       THEN /\ usedGlobal' = usedGlobal + 1
            /\ usedChannel' = [usedChannel EXCEPT ![feedChannel[a]] = @ + 1]
            /\ admitted' = [admitted EXCEPT ![a] = TRUE]
            /\ sendNewArticle(a, TRUE)
       ELSE /\ UNCHANGED <<quota, admitted>>
            /\ sendNewArticle(a, FALSE)
  /\ UNCHANGED <<schedule, config, channels, feedChannel, verdict, renderCalls, limiterCalls,
                 sink>>

getMediumDone_waitsForOthers(a) ==
  /\ pc[a] = "getMedium"
  /\ \A b \in Articles \ {a} : pc[b] \notin {"getMedium", "restProducerEnqueue"}
  /\ IF ~getMedium(a)
       THEN /\ handleArticleFailure(a, MissingMedium)
            /\ UNCHANGED sinkRequests
       ELSE /\ \E n \in 1..MaxPayloads :
                 sinkRequests' = [sinkRequests EXCEPT ![a] = @ + n]
            /\ pc' = [pc EXCEPT ![a] = "restProducerEnqueue"]
            /\ UNCHANGED failure
  /\ UNCHANGED <<schedule, config, channels, feedChannel, verdict, renderCalls, limiterCalls,
                 admitted, subSettled, subFailed, quota, registry>>

\* getMedium settles; sendToService runs to `Promise.all(...)`: lines 42-60.
\* Every restProducer.enqueue call is made before the first await.
getMediumDone(a) ==
  /\ pc[a] = "getMedium"
  /\ IF ~getMedium(a)
       THEN /\ handleArticleFailure(a, MissingMedium)
            /\ UNCHANGED sinkRequests
       ELSE /\ \E n \in 1..MaxPayloads :
                 sinkRequests' = [sinkRequests EXCEPT ![a] = @ + n]
            /\ pc' = [pc EXCEPT ![a] = "restProducerEnqueue"]
            /\ UNCHANGED failure
  /\ UNCHANGED <<schedule, config, channels, feedChannel, verdict, renderCalls, limiterCalls,
                 admitted, subSettled, subFailed, quota, registry>>

\* Promise.all of the restProducer.enqueue calls settles: resolved, or rejected
\* with the first sub-request's error, which deliver's catch handles.  The
\* single requests are not followed here (see enqueueRequestDone).
restProducerEnqueueDone(a) ==
  /\ pc[a] = "restProducerEnqueue"
  /\ \/ /\ pc' = [pc EXCEPT ![a] = "dispatched"]
        /\ UNCHANGED failure
     \/ \E e \in SinkErrors : handleArticleFailure(a, e)
  /\ UNCHANGED <<schedule, config, channels, feedChannel, verdict, renderCalls, limiterCalls,
                 admitted, sink, quota, registry>>

\* The restProducer.enqueue promises of the article that have not settled.
subPending(a) == sinkRequests[a] - subSettled[a]

\* One restProducer.enqueue promise settles while Promise.all is pending:
\* Promise.all resolves with the last one resolved, and rejects with the first
\* rejection, which deliver's catch hands to handleArticleFailure.
enqueueRequestDone_lastOnly(a) ==
  /\ pc[a] = "restProducerEnqueue"
  /\ subPending(a) > 0
  /\ subSettled' = [subSettled EXCEPT ![a] = @ + 1]
  /\ \/ /\ pc' = [pc EXCEPT ![a] = IF subPending(a) = 1 THEN "dispatched" ELSE @]
        /\ UNCHANGED <<failure, subFailed>>
     \/ /\ subFailed' = [subFailed EXCEPT ![a] = @ + 1]
        /\ IF subPending(a) = 1
             THEN \E e \in SinkErrors : handleArticleFailure(a, e)
             ELSE UNCHANGED <<pc, failure>>
  /\ UNCHANGED <<schedule, config, channels, feedChannel, verdict, renderCalls, limiterCalls,
                 admitted, sinkRequests, quota, registry>>
enqueueRequestDone(a) ==
  /\ pc[a] = "restProducerEnqueue"
  /\ subPending(a) > 0
  /\ subSettled' = [subSettled EXCEPT ![a] = @ + 1]
  /\ \/ /\ pc' = [pc EXCEPT ![a] = IF subPending(a) = 1 THEN "dispatched" ELSE @]
        /\ UNCHANGED <<failure, subFailed>>
     \/ /\ subFailed' = [subFailed EXCEPT ![a] = @ + 1]
        /\ \E e \in SinkErrors : handleArticleFailure(a, e)
  /\ UNCHANGED <<schedule, config, channels, feedChannel, verdict, renderCalls, limiterCalls,
                 admitted, sinkRequests, quota, registry>>

\* A restProducer.enqueue promise settles after Promise.all rejected: nothing
\* in the pipeline awaits it any more.
lateEnqueueDone(a) ==
  /\ pc[a] \notin {"getMedium", "restProducerEnqueue"}
  /\ subSettled[a] > 0
  /\ subPending(a) > 0
  /\ subSettled' = [subSettled EXCEPT ![a] = @ + 1]
  /\ \/ UNCHANGED subFailed
     \/ subFailed' = [subFailed EXCEPT ![a] = @ + 1]
  /\ UNCHANGED <<schedule, config, channels, feedChannel, pc, verdict, failure, renderCalls,
                 limiterCalls, admitted, sinkRequests, quota, registry>>

recordFailureDone_propagate(a) ==
  /\ pc[a] = "recordFailure"
  /\ \E saved \in BOOLEAN :
       /\ recs' = [recs EXCEPT ![a] = Append(@, DeliveryRecord(a, messageOrNA(err[a]), saved))]
       /\ IF saved
            THEN classifyFailure(a, err[a], failChannel[a])
            ELSE /\ pc' = [pc EXCEPT ![a] = "rejected"]
                 /\ UNCHANGED diagSends
  /\ UNCHANGED <<schedule, config, channels, feedChannel, verdict, err, failChannel,
                 renderCalls, limiterCalls, admitted, sink, quota, registry>>

\* record.save() of recordFailure settles: lines 152-157, then
\* handleArticleFailure goes on from line 102.
recordFailureDone(a) ==
  /\ pc[a] = "recordFailure"
  /\ \E saved \in BOOLEAN :
       recs' = [recs EXCEPT ![a] = Append(@, DeliveryRecord(a, messageOrNA(err[a]), saved))]
  /\ classifyFailure(a, err[a], failChannel[a])
  /\ UNCHANGED <<schedule, config, channels, feedChannel, verdict, err, failChannel,
                 renderCalls, limiterCalls, admitted, sink, quota, registry>>

\* channel.send of line 113 settles: resolved, or rejected (deliver rejects).
channelSendDone(a) ==
  /\ pc[a] = "channelSend"
  /\ \/ pc' = [pc EXCEPT ![a] = "failed"]
     \/ pc' = [pc EXCEPT ![a] = "rejected"]
  /\ UNCHANGED <<schedule, config, channels, feedChannel, verdict, failure, renderCalls,
                 limiterCalls, admitted, sink, quota, registry>>

removeChannel_dropsQueue(c) ==
  /\ c \in channels
  /\ channels' = channels \ {c}
  /\ queues' = [queues EXCEPT ![c] = NoQueue]
  /\ UNCHANGED <<schedule, config, feedChannel, pc, verdict, failure, renderCalls,
                 limiterCalls, admitted, sink, quota, created, requested, enqLog, drained>>

\* The channel is deleted: discord.js drops it from bot.channels.cache.
removeChannel(c) ==
  /\ c \in channels
  /\ channels' = channels \ {c}
  /\ UNCHANGED <<schedule, config, feedChannel, pc, verdict, failure, renderCalls,
                 limiterCalls, admitted, sink, quota, registry>>

\* ArticleQueue's drain timer: pop the oldest entry and dispatch it.
drain(c) ==
  /\ queuesHas(queues, c)
  /\ queues[c].items # <<>>
  /\ drained' = [drained EXCEPT ![c] = Append(@, Head(queues[c].items))]
  /\ queues' = [queues EXCEPT ![c].items = Tail(@)]
  /\ UNCHANGED <<schedule, config, channels, feedChannel, pc, verdict, failure, renderCalls,
                 limiterCalls, admitted, sink, quota, created, requested,
                 enqLog>>

Next ==
  \/ \E a \in Articles, c \in Channels : deliver(a, c)
  \/ \E a \in Articles : createArticleMessageDone(a)
  \/ \E a \in Articles : recordFilterBlockDone(a)
  \/ \E a \in Articles : assertWithinLimitsDone(a)
  \/ \E a \in Articles : getMediumDone(a)
  \/ \E a \in Articles : restProducerEnqueueDone(a)
  \/ \E a \in Articles : recordFailureDone(a)
  \/ \E a \in Articles : channelSendDone(a)
  \/ \E c \in Channels : removeChannel(c)
  \/ \E c \in Channels : drain(c)

Spec == Init /\ [][Next]_vars

\* The pipeline with every external call settling: an awaited call that has
\* been made is eventually answered, for each delivery on its own.
settles(a) ==
  \/ createArticleMessageDone(a)
  \/ recordFilterBlockDone(a)
  \/ assertWithinLimitsDone(a)
  \/ getMediumDone(a)
  \/ restProducerEnqueueDone(a)
  \/ recordFailureDone(a)
  \/ channelSendDone(a)
InitSettling == Init /\ isMongoDatabase /\ articleRateLimit = 0 /\ dailyLimit <= 1
NextSettling ==
  \/ \E a \in Articles, c \in Channels : deliver(a, c)
  \/ \E a \in Articles : settles(a)
  \/ \E c \in Channels : removeChannel(c)
SpecSettling ==
  InitSettling /\ [][NextSettling]_vars /\ \A a \in Articles : WF_vars(settles(a))

\* The direct-send pipeline with every restProducer.enqueue promise followed
\* on its own, in place of Promise.all as a whole.
InitRequests == Init /\ restProducer /\ articleRateLimit = 0 /\ dailyLimit = 0
NextRequests ==
  \/ \E a \in Articles, c \in Channels : deliver(a, c)
  \/ \E a \in Articles : createArticleMessageDone(a)
  \/ \E a \in Articles : recordFilterBlockDone(a)
  \/ \E a \in Articles : assertWithinLimitsDone(a)
  \/ \E a \in Articles : getMediumDone(a)
  \/ \E a \in Articles : enqueueRequestDone(a)
  \/ \E a \in Articles : lateEnqueueDone(a)
  \/ \E a \in Articles : recordFailureDone(a)
  \/ \E a \in Articles : channelSendDone(a)
  \/ \E c \in Channels : removeChannel(c)
SpecRequests == InitRequests /\ [][NextRequests]_vars

\* ------------------------------------------------------------- schedules
\* testScheduleRun, lines 15-18: a new ScheduleManager gets testRuns from the
\* run settings, the schedules are added and the timers begun.  With testRuns
\* beginTimers also forces one immediate cycle of every schedule.
testScheduleRun(runSettingsTestRuns) ==
  /\ ~timersArmed
  /\ testRuns' = runSettingsTestRuns
  /\ schedules' = Schedules
  /\ timersArmed' = TRUE
  /\ IF runSettingsTestRuns
       THEN /\ activeRuns' = [s \in Schedules |-> 1]
            /\ cyclesStarted' = [s \in Schedules |-> 1]
       ELSE UNCHANGED <<activeRuns, cyclesStarted>>
  /\ UNCHANGED <<pipeline, firingsSkipped>>

\* The timer of a schedule fires: a cycle starts unless the previous one is
\* still running, in which case the firing is skipped (not queued).
timerFired_overlapping(s) ==
  /\ timersArmed
  /\ s \in schedules
  /\ cyclesStarted[s] + firingsSkipped[s] < MaxFirings
  /\ activeRuns' = [activeRuns EXCEPT ![s] = @ + 1]
  /\ cyclesStarted' = [cyclesStarted EXCEPT ![s] = @ + 1]
  /\ UNCHANGED <<pipeline, testRuns, schedules, timersArmed, firingsSkipped>>
timerFired(s) ==
  /\ timersArmed
  /\ s \in schedules
  /\ cyclesStarted[s] + firingsSkipped[s] < MaxFirings
  /\ IF activeRuns[s] > 0
       THEN /\ firingsSkipped' = [firingsSkipped EXCEPT ![s] = @ + 1]
            /\ UNCHANGED <<activeRuns, cyclesStarted>>
       ELSE /\ activeRuns' = [activeRuns EXCEPT ![s] = @ + 1]
            /\ cyclesStarted' = [cyclesStarted EXCEPT ![s] = @ + 1]
            /\ UNCHANGED firingsSkipped
  /\ UNCHANGED <<pipeline, testRuns, schedules, timersArmed>>

\* The running cycle of a schedule completes.
cycleDone(s) ==
  /\ activeRuns[s] > 0
  /\ activeRuns' = [activeRuns EXCEPT ![s] = @ - 1]
  /\ UNCHANGED <<pipeline, testRuns, schedules, timersArmed, cyclesStarted,
                 firingsSkipped>>

\* The schedule manager alone, with the pipeline at rest.
InitSchedule ==
  Init /\ isMongoDatabase /\ restProducer /\ articleRateLimit = 0 /\ dailyLimit = 0
NextSchedule ==
  \/ \E t \in BOOLEAN : testScheduleRun(t)
  \/ \E s \in Schedules : timerFired(s)
  \/ \E s \in Schedules : cycleDone(s)
SpecSchedule == InitSchedule /\ [][NextSchedule]_vars

\* ------------------------------------------------------------ observations
\* deliver's promise has settled.
Resolved(a) == pc[a] \in {"dropped", "blocked", "failed", "dispatched", "enqueued"}
Rejected(a) == pc[a] = "rejected"
Settled(a) == Resolved(a) \/ Rejected(a)

\* sendNewArticle put the article into an ArticleQueue.
InEnqLog(a) == \E c \in Channels : \E i \in 1..Len(enqLog[c]) : enqLog[c][i] = a
\* A dispatch request was issued for the article, in either mode.
Dispatched(a) == sinkRequests[a] > 0 \/ InEnqLog(a)
\* assertWithinLimits threw for the article.
LimiterRefused(a) ==
  limiterCalls[a] > 0 /\ ~admitted[a] /\ pc[a] # "assertWithinLimits"

\* ------------------------------------------------------------------ claims

\* C1, as stated: every article that fails the filters ends with exactly one
\* DeliveryRecord (delivered = false, comment "Blocked by filters") and no
\* dispatch request.
C1_BlockedAlwaysRecorded ==
  \A a \in Articles :
    pc[a] = "blocked" =>
      /\ Len(recs[a]) = 1
      /\ recs[a][1].delivered = FALSE
      /\ recs[a][1].comment = BlockedComment
      /\ ~Dispatched(a)

\* C1, amended: an article that fails the filters is never dispatched (no
\* restProducer.enqueue, no queue entry, no admission call) in either mode;
\* with the recording store enabled deliver attempts exactly one DeliveryRecord
\* save for it, with delivered = false and the comment "Blocked by filters";
\* with the store disabled it writes none.
C1_FilterBlocked ==
  \A a \in Articles :
    verdict[a] = "blocked" =>
      /\ pc[a] \in {"recordFilterBlock", "blocked"}
      /\ ~Dispatched(a)
      /\ limiterCalls[a] = 0
      /\ pc[a] = "recordFilterBlock" => isMongoDatabase /\ recs[a] = <<>>
      /\ pc[a] = "blocked" =>
           IF isMongoDatabase
             THEN /\ Len(recs[a]) = 1
                  /\ recs[a][1].articleID = a
                  /\ recs[a][1].channel = feedChannel[a]
                  /\ recs[a][1].delivered = FALSE
                  /\ recs[a][1].comment = BlockedComment
             ELSE recs[a] = <<>>
C1_Witness ==
  \E a \in Articles :
    /\ pc[a] = "blocked"
    /\ isMongoDatabase
    /\ Len(recs[a]) = 1
    /\ recs[a][1].saved

\* C2: an article that assertWithinLimits refuses as rate-limited gets no
\* DeliveryRecord at all and no dispatch request.
C2_RateLimitedNotRecorded ==
  \A a \in Articles :
    LimiterRefused(a) => recs[a] = <<>> /\ ~Dispatched(a)

\* C3: admission is check-and-consume in one step, so per quota scope no more
\* articles are admitted than the budget holds, whatever the interleaving of
\* the in-flight deliver calls, and an article is dispatched or enqueued only
\* after its own admission.
C3_AdmissionWithinBudget ==
  /\ \A a \in Articles : Dispatched(a) \/ pc[a] \in {"getMedium", "restProducerEnqueue"}
                           => admitted[a]
  /\ \A c \in Channels :
       dailyLimit # 0 =>
         Cardinality({a \in Articles : feedChannel[a] = c /\ admitted[a]}) <= dailyLimit
  /\ articleRateLimit # 0 =>
       Cardinality({a \in Articles : admitted[a]}) <= articleRateLimit
  /\ \A c \in Channels :
       usedChannel[c] = Cardinality({a \in Articles : feedChannel[a] = c /\ admitted[a]})
C3_Witness ==
  \E a, b, c \in Articles :
    /\ a # b /\ a # c /\ b # c
    /\ feedChannel[a] = feedChannel[b] /\ feedChannel[b] = feedChannel[c]
    /\ articleRateLimit = 0
    /\ dailyLimit = 2
    /\ admitted[a] /\ Dispatched(a)
    /\ admitted[b] /\ Dispatched(b)
    /\ LimiterRefused(c) /\ Settled(c) /\ ~Dispatched(c)

\* C4: when the destination exists at deliver's start and is gone when
\* sendToService looks the medium up, no DeliveryRecord is written and deliver
\* does not reject.
C4_MissingMediumNoOutcome ==
  \A a \in Articles :
    err[a] = MissingMedium /\ Settled(a) => recs[a] = <<>> /\ ~Rejected(a)

\* C5: when the channel is missing at deliver's start the article is dropped:
\* nothing is rendered, admitted, recorded, dispatched or enqueued, the queue
\* registry and the quotas stay as they were, and deliver resolves.
C5_DroppedState ==
  \A a \in Articles :
    pc[a] = "dropped" =>
      /\ renderCalls[a] = 0
      /\ limiterCalls[a] = 0
      /\ ~admitted[a]
      /\ recs[a] = <<>>
      /\ ~Dispatched(a)
      /\ diagSends[a] = 0
      /\ err[a] = NoError
C5_DroppedStep ==
  \A a \in Articles :
    pc[a] = "pending" /\ pc'[a] # "pending" /\ feedChannel'[a] \notin channels =>
      /\ pc'[a] = "dropped"
      /\ UNCHANGED <<registry, quota, failure, renderCalls, limiterCalls, admitted,
                     sink, verdict>>
C5_MissingChannelDropped == []C5_DroppedState /\ [][C5_DroppedStep]_vars
C5_Witness ==
  \E a \in Articles : pc[a] = "dropped" /\ \E b \in Articles : Dispatched(b)

\* C6: the promise returned by deliver never rejects.
C6_DeliverNeverRejects == \A a \in Articles : ~Rejected(a)

\* C7: every failure with code 50035, whatever its message, ends with a
\* DeliveryRecord holding the sink's message (where records are kept) and
\* exactly one diagnostic channel.send.
C7_BadRequestNotified ==
  \A a \in Articles :
    err[a].code = BadRequest /\ Settled(a) =>
      /\ diagSends[a] = 1
      /\ isMongoDatabase =>
           Len(recs[a]) = 1 /\ recs[a][1].comment = err[a].message

\* C8: the pipeline writes into the destination only for a failure with the
\* bad-request code: never for a dropped, blocked, rate-limited or
\* missing-medium article, nor for another failure code, and at most once.
C8_DiagnosticOnlyForBadRequest ==
  \A a \in Articles :
    /\ diagSends[a] <= 1
    /\ diagSends[a] > 0 =>
         /\ err[a].code = BadRequest
         /\ verdict[a] = "passed"
         /\ pc[a] \in {"channelSend", "failed", "rejected"}
    /\ pc[a] = "channelSend" => diagSends[a] = 1
C8_Witness ==
  \E a \in Articles :
    diagSends[a] = 1 /\ pc[a] = "failed" /\ err[a].code = BadRequest

\* C9: per channel, the queue dispatches its entries in the order
\* sendNewArticle enqueued them: what was dispatched, followed by what still
\* waits, is the enqueue order, with no entry lost or repeated.
C9_QueueFIFO ==
  \A c \in Channels :
    /\ drained[c] \o queues[c].items = enqLog[c]
    /\ \A i, j \in 1..Len(enqLog[c]) : enqLog[c][i] = enqLog[c][j] => i = j
    /\ \A i \in 1..Len(enqLog[c]) : feedChannel[enqLog[c][i]] = c
C9_Witness ==
  \E c \in Channels :
    /\ Len(enqLog[c]) = 3
    /\ Len(drained[c]) = 3
    /\ drained[c] = enqLog[c]

\* C10: getQueueForChannel called twice with one channel id returns the same
\* instance, the second call changes nothing, and the registry holds exactly
\* one queue per channel id it was ever called with.
C10_GetQueueIdempotent ==
  /\ \A c \in Channels :
       LET r1 == getQueueForChannel(queues, created, c)
           r2 == getQueueForChannel(r1.queues, r1.created, c)
       IN /\ r2.queue = r1.queue
          /\ r2.queues = r1.queues
          /\ r2.created = r1.created
          /\ queuesHas(r1.queues, c)
          /\ r1.queues[c].id = r1.queue
  /\ {c \in Channels : queuesHas(queues, c)} = requested
  /\ created = Cardinality(requested)
  /\ \A c, d \in requested : queues[c].id = queues[d].id => c = d
C10_Witness ==
  \E c, d \in Channels :
    /\ c # d
    /\ Len(enqLog[c]) = 2
    /\ Len(enqLog[d]) = 1
    /\ created = 2
    /\ queuesHas(queues, c) /\ queuesHas(queues, d)

\* ---------------------------------------------------------------- C11
\* What handleArticleFailure does after `await this.recordFailure(...)`, read
\* from the error and the channel alone: the positions the delivery may be in
\* and the number of diagnostic sends it has issued.
FailureEndPositions(e, ch) ==
  IF ~e.hasMessage THEN {"rejected"}
  ELSE IF includesLimited(e.message) THEN {"failed"}
  ELSE IF e.code = BadRequest
    THEN IF ch THEN {"channelSend", "failed", "rejected"} ELSE {"rejected"}
    ELSE {"failed"}

FailureEndSends(e, ch) ==
  IF e.hasMessage /\ ~includesLimited(e.message) /\ e.code = BadRequest /\ ch THEN 1 ELSE 0

\* C11: with the recording store enabled, every blocked or failed article gets
\* exactly one DeliveryRecord save attempt, never a second one, and what
\* follows the attempt (the positions reached, the diagnostic send, how deliver
\* settles) is the same whether the save succeeded or failed.
C11_WriteBestEffort ==
  isMongoDatabase =>
    \A a \in Articles :
      /\ Len(recs[a]) <= 1
      /\ pc[a] \in {"recordFailure", "recordFilterBlock"} => Len(recs[a]) = 0
      /\ (verdict[a] = "blocked" /\ pc[a] # "recordFilterBlock") =>
           /\ Len(recs[a]) = 1
           /\ pc[a] = "blocked"
      /\ (err[a] # NoError /\ pc[a] # "recordFailure") =>
           /\ Len(recs[a]) = 1
           /\ pc[a] \in FailureEndPositions(err[a], failChannel[a])
           /\ diagSends[a] = FailureEndSends(err[a], failChannel[a])

\* A save failed for a blocked article and for a failed one, and both deliver
\* calls resolved; the failed one still sent its diagnostic message.
C11_Witness ==
  \E a, b \in Articles :
    /\ isMongoDatabase
    /\ pc[a] = "blocked" /\ Len(recs[a]) = 1 /\ ~recs[a][1].saved
    /\ pc[b] = "failed" /\ Len(recs[b]) = 1 /\ ~recs[b][1].saved
    /\ diagSends[b] = 1

\* ---------------------------------------------------------------- C12
\* C12 as the spec states it: whenever a sub-request of an article failed, one
\* failed outcome with the failure's message is recorded for it.
C12_FailedAlwaysRecorded ==
  \A a \in Articles :
    (subFailed[a] >= 1 /\ Settled(a)) =>
      /\ Len(recs[a]) = 1
      /\ err[a].hasMessage
      /\ recs[a][1].comment = err[a].message

C12_RequestsState ==
  \A a \in Articles :
    /\ subSettled[a] <= sinkRequests[a]
    /\ subFailed[a] <= subSettled[a]
    /\ sinkRequests[a] <= MaxPayloads
    /\ pc[a] = "restProducerEnqueue" =>
         /\ sinkRequests[a] >= 1
         /\ subFailed[a] = 0
         /\ subSettled[a] < sinkRequests[a]
    /\ pc[a] = "dispatched" =>
         /\ sinkRequests[a] >= 1
         /\ subSettled[a] = sinkRequests[a]
         /\ subFailed[a] = 0
         /\ err[a] = NoError
         /\ recs[a] = <<>>
    /\ subFailed[a] >= 1 =>
         /\ err[a] \in SinkErrors
         /\ pc[a] \in {"recordFailure", "channelSend", "failed", "rejected"}
         /\ Len(recs[a]) = IF isMongoDatabase /\ pc[a] # "recordFailure" THEN 1 ELSE 0
         /\ Len(recs[a]) = 1 => recs[a][1].comment = messageOrNA(err[a])

C12_RequestsStep ==
  \A a \in Articles :
    \* all n requests are issued in the one step that leaves getMedium
    /\ sinkRequests'[a] # sinkRequests[a] =>
         /\ pc[a] = "getMedium" /\ pc'[a] = "restProducerEnqueue"
         /\ sinkRequests[a] = 0 /\ subSettled'[a] = 0
    \* the first rejection alone is handled: later ones change nothing
    /\ err[a] # NoError => err'[a] = err[a]
    /\ Len(recs[a]) = 1 => recs'[a] = recs[a]
    /\ (subFailed[a] >= 1 /\ subFailed'[a] > subFailed[a]) =>
         UNCHANGED <<pc, failure>>

\* C12 (amended): in direct-send mode an admitted article with n payloads
\* causes exactly n sink requests, all issued before any result is awaited;
\* it is dispatched only if all n resolve, and if any reject the article is
\* handled as failed exactly once, with the first rejection's error; where the
\* recording store is enabled exactly one record is written, whose comment is
\* that error's message ('N/A' if it has none), and none where it is disabled.
C12_FailedOnce == []C12_RequestsState /\ [][C12_RequestsStep]_vars

\* Both requests of an article were rejected and one record was written.
C12_Witness ==
  \E a \in Articles :
    /\ sinkRequests[a] = 2 /\ subFailed[a] = 2
    /\ pc[a] = "failed"
    /\ Len(recs[a]) = 1

\* ---------------------------------------------------------------- C13
\* C13: when Feed.isMongoDatabase is false no DeliveryRecord write is attempted
\* on any path, and everything else the pipeline does for a blocked or failed
\* article (no admission call and no dispatch for a blocked one; the diagnostic
\* send and the way deliver settles for a failed one) is what it does with the
\* store enabled: it follows from the filter verdict, the error and the
\* channel alone.
C13_DisabledStoreNoOp ==
  \A a \in Articles :
    /\ ~isMongoDatabase =>
         /\ recs[a] = <<>>
         /\ pc[a] \notin {"recordFailure", "recordFilterBlock"}
    /\ (verdict[a] = "blocked" /\ pc[a] # "recordFilterBlock") =>
         /\ pc[a] = "blocked"
         /\ limiterCalls[a] = 0 /\ ~Dispatched(a) /\ diagSends[a] = 0
    /\ (err[a] # NoError /\ pc[a] # "recordFailure") =>
         /\ pc[a] \in FailureEndPositions(err[a], failChannel[a])
         /\ diagSends[a] = FailureEndSends(err[a], failChannel[a])
    /\ (err[a] = NoError /\ verdict[a] # "blocked") => diagSends[a] = 0

\* With the store disabled one article was blocked and another failed with a
\* bad-request error: the diagnostic was sent, nothing was written.
C13_Witness ==
  \E a, b \in Articles :
    /\ ~isMongoDatabase
    /\ pc[a] = "blocked"
    /\ pc[b] = "failed" /\ diagSends[b] = 1
    /\ \A x \in Articles : recs[x] = <<>>

\* ---------------------------------------------------------------- C14
C14_AtMostOneRun ==
  \A s \in Schedules :
    /\ activeRuns[s] <= 1
    /\ activeRuns[s] <= cyclesStarted[s]
    /\ (activeRuns[s] > 0 \/ cyclesStarted[s] > 0) => (timersArmed /\ s \in schedules)

C14_FiringStep ==
  \A s \in Schedules :
    \* a cycle starts only while none is running
    /\ cyclesStarted'[s] > cyclesStarted[s] =>
         /\ activeRuns[s] = 0
         /\ activeRuns'[s] = 1
    \* a firing during a running cycle is skipped: nothing starts, nothing is queued
    /\ firingsSkipped'[s] > firingsSkipped[s] =>
         /\ activeRuns[s] = 1
         /\ activeRuns'[s] = 1
         /\ cyclesStarted'[s] = cyclesStarted[s]

\* C14: for every schedule at most one refresh cycle runs at any instant; a
\* timer firing while the schedule's previous cycle is still running starts no
\* second execution and leaves none queued, wherever the firings and the
\* cycle completions fall relative to each other.
C14_NoScheduleOverlap == []C14_AtMostOneRun /\ [][C14_FiringStep]_vars

\* A schedule's timer fired twice during one running cycle: both firings were
\* skipped and that one cycle is still the only one running.
C14_Witness ==
  \E s \in Schedules :
    /\ activeRuns[s] = 1
    /\ cyclesStarted[s] = 1
    /\ firingsSkipped[s] = 2

\* ---------------------------------------------------------------- C15
\* The number of articles the limiter admitted.
C15_AdmittedCount == Cardinality({a \in Articles : admitted[a]})

\* C15: assertWithinLimits is called at most once per deliver call, and only
\* after the channel was found and the rendered message passed the filters;
\* every sink request or queue enqueue of an article comes after that
\* article's assertWithinLimits call resolved; a filter-blocked or
\* channel-less article never calls the limiter and consumes no quota.
C15_StepsOrdered ==
  /\ \A a \in Articles :
       /\ limiterCalls[a] <= 1
       /\ renderCalls[a] <= 1
       /\ limiterCalls[a] = 1 =>
            /\ renderCalls[a] = 1
            /\ verdict[a] = "passed"
            /\ feedChannel[a] \in Channels
       /\ pc[a] = "assertWithinLimits" => (limiterCalls[a] = 1 /\ ~admitted[a])
       /\ admitted[a] => (limiterCalls[a] = 1 /\ pc[a] # "assertWithinLimits")
       /\ Dispatched(a) => admitted[a]
       /\ pc[a] \in {"getMedium", "restProducerEnqueue", "dispatched", "enqueued"} => admitted[a]
       /\ (verdict[a] = "blocked" \/ pc[a] = "dropped") =>
            /\ limiterCalls[a] = 0
            /\ ~admitted[a]
            /\ ~Dispatched(a)
  /\ usedGlobal = C15_AdmittedCount
  /\ \A c \in Channels :
       usedChannel[c] = Cardinality({a \in Articles : admitted[a] /\ feedChannel[a] = c})

\* One article was blocked and one dropped while a third consumed the only
\* unit of quota used.
C15_Witness ==
  \E a, b, d \in Articles :
    /\ verdict[a] = "blocked" /\ pc[a] = "blocked"
    /\ pc[b] = "dropped"
    /\ admitted[d] /\ pc[d] = "enqueued"
    /\ usedGlobal = 1

\* ---------------------------------------------------------------- C16
\* C16 as the spec states it, direct-send half: every admitted article reaches
\* restProducer.enqueue.
C16_AdmittedAlwaysSent ==
  \A a \in Articles :
    (restProducer /\ admitted[a] /\ Settled(a)) => sinkRequests[a] >= 1

\* How often the article was enqueued into the queue of channel c.
C16_Enqueues(a, c) == Cardinality({i \in 1..Len(enqLog[c]) : enqLog[c][i] = a})

\* C16 (amended): the dispatch mode is fixed for the life of the pipeline.
\* With a restProducer no ArticleQueue is ever created or enqueued into, and
\* every admitted article goes on to sendToService, where it reaches
\* restProducer.enqueue unless its medium is gone by then, in which case it
\* fails with the missing-medium error without a request.  Without a
\* restProducer every admitted article is enqueued exactly once, into the
\* queue of its own feed's channel id and no other, and deliver never calls
\* the outbound sink.
C16_ModesExclusive ==
  /\ restProducer =>
       /\ created = 0 /\ requested = {}
       /\ \A c \in Channels : ~queuesHas(queues, c) /\ enqLog[c] = <<>>
       /\ \A a \in Articles :
            /\ pc[a] # "enqueued"
            /\ sinkRequests[a] >= 1 => admitted[a]
            /\ admitted[a] =>
                 \/ pc[a] = "getMedium"
                 \/ sinkRequests[a] >= 1
                 \/ sinkRequests[a] = 0 /\ err[a] = MissingMedium
  /\ ~restProducer =>
       \A a \in Articles :
         /\ sinkRequests[a] = 0
         /\ pc[a] \notin {"getMedium", "restProducerEnqueue", "dispatched"}
         /\ err[a] # MissingMedium
         /\ admitted[a] => pc[a] = "enqueued"
         /\ \A c \in Channels :
              C16_Enqueues(a, c) = IF admitted[a] /\ c = feedChannel[a] THEN 1 ELSE 0
         /\ admitted[a] => queuesHas(queues, feedChannel[a])

\* Direct-send mode: one admitted article was sent with two requests, another
\* admitted one found its medium gone and failed without a request.
C16_Witness ==
  \E a, b \in Articles :
    /\ restProducer
    /\ admitted[a] /\ pc[a] = "dispatched" /\ sinkRequests[a] = 2
    /\ admitted[b] /\ pc[b] = "failed" /\ sinkRequests[b] = 0 /\ err[b] = MissingMedium

\* ---------------------------------------------------------------- C17
C17_QueuesLazy ==
  \A c \in Channels :
    queuesHas(queues, c) =>
      /\ ~restProducer
      /\ enqLog[c] # <<>>
      /\ \A i \in 1..Len(enqLog[c]) :
           /\ verdict[enqLog[c][i]] = "passed"
           /\ admitted[enqLog[c][i]]
           /\ feedChannel[enqLog[c][i]] = c

C17_RegistryStep ==
  \A c \in Channels :
    \* a mapping, once made, is kept as it is
    /\ queuesHas(queues, c) =>
         /\ queuesHas(queues', c)
         /\ queues'[c].id = queues[c].id
    \* a queue is made only by the step that enqueues an admitted article
    /\ (~queuesHas(queues, c) /\ queuesHas(queues', c)) =>
         \E a \in Articles :
           /\ pc[a] = "assertWithinLimits" /\ pc'[a] = "enqueued"
           /\ feedChannel[a] = c
           /\ verdict[a] = "passed"
           /\ admitted'[a]
           /\ enqLog'[c] = <<a>>

\* C17: the channel-to-queue registry only grows and only lazily: a queue is
\* created for a channel only when an article for it has passed the filters
\* and admission in queue mode, and once a channel id maps to a queue that
\* mapping is never removed or replaced, whatever happens later (a delivery
\* failing, the queue running empty, the channel being deleted).
C17_RegistryOnlyGrows == []C17_QueuesLazy /\ [][C17_RegistryStep]_vars

\* A channel's queue has been drained empty, the channel itself is deleted,
\* another article has failed, and the queue is still registered.
C17_Witness ==
  \E c \in Channels :
    /\ queuesHas(queues, c)
    /\ queues[c].items = <<>>
    /\ Len(drained[c]) >= 1
    /\ c \notin channels
    /\ \E a \in Articles : pc[a] = "failed"

\* ---------------------------------------------------------------- C18
\* C18: a deliver call attempts at most one DeliveryRecord write and every
\* record the pipeline writes has delivered=false; an article is never
\* recorded both as blocked and as failed; a dispatched or enqueued article,
\* and one that is still on its way there, has no record from the pipeline.
C18_AtMostOneRecord ==
  \A a \in Articles :
    /\ Len(recs[a]) <= 1
    /\ \A i \in 1..Len(recs[a]) :
         /\ recs[a][i].delivered = FALSE
         /\ recs[a][i].articleID = a
         /\ recs[a][i].channel = feedChannel[a]
         /\ recs[a][i].comment = BlockedComment <=> verdict[a] = "blocked"
         /\ recs[a][i].comment # BlockedComment =>
              (err[a] # NoError /\ recs[a][i].comment = messageOrNA(err[a]))
    /\ ~(verdict[a] = "blocked" /\ err[a] # NoError)
    /\ pc[a] \in {"pending", "createArticleMessage", "assertWithinLimits", "getMedium",
                  "restProducerEnqueue", "dispatched", "enqueued", "dropped"} =>
         recs[a] = <<>>

\* One article has its blocked record, another its failed record, a third was
\* enqueued and has none.
C18_Witness ==
  \E a, b, d \in Articles :
    /\ Len(recs[a]) = 1 /\ recs[a][1].comment = BlockedComment
    /\ Len(recs[b]) = 1 /\ recs[b][1].comment # BlockedComment /\ pc[b] = "failed"
    /\ pc[d] = "enqueued" /\ recs[d] = <<>>

\* ---------------------------------------------------------------- C19
\* deliver is between two awaits for the article.
C19_InFlight(a) == pc[a] \notin {"pending"} /\ ~Settled(a)

\* The terminal states the article is in, of the five the pipeline has.
C19_Terminals(a) ==
  {t \in {"dropped", "blocked", "failed", "dispatched", "enqueued"} :
     \/ t = "dropped" /\ pc[a] = "dropped" /\ renderCalls[a] = 0
     \/ t = "blocked" /\ pc[a] = "blocked" /\ verdict[a] = "blocked" /\ err[a] = NoError
     \/ t = "failed" /\ pc[a] \in {"failed", "rejected"} /\ err[a] # NoError
     \/ t = "dispatched" /\ pc[a] = "dispatched" /\ sinkRequests[a] >= 1 /\ err[a] = NoError
     \/ t = "enqueued" /\ pc[a] = "enqueued" /\ InEnqLog(a) /\ err[a] = NoError}

C19_State ==
  \A a \in Articles :
    \* the awaited call of a delivery in flight can settle whatever the others do
    /\ C19_InFlight(a) => ENABLED settles(a)
    /\ Settled(a) => Cardinality(C19_Terminals(a)) = 1
    /\ ~Settled(a) => C19_Terminals(a) = {}

C19_Step == \A a \in Articles : Settled(a) => pc'[a] = pc[a]

\* C19: if every external call eventually settles, every deliver call that was
\* made eventually finishes, in exactly one of the terminal states dropped,
\* blocked, failed, dispatched, enqueued, and stays there; this holds with any
\* number of deliveries in flight, and no delivery's next step waits on
\* another delivery.
C19_EveryDeliverFinishes ==
  /\ \A a \in Articles : (pc[a] # "pending") ~> Settled(a)
  /\ []C19_State
  /\ [][C19_Step]_vars

\* Three deliveries were in flight at once and all finished, in three
\* different terminal states.
C19_Witness ==
  \E a, b, d \in Articles :
    /\ pc[a] = "enqueued" /\ pc[b] = "blocked" /\ pc[d] = "failed"
    /\ feedChannel[a] = feedChannel[b]

====
